---- MODULE Spec2Model ----
(***************************************************************************)
(* pyls: a directory listing over a tree loaded from structure.json.       *)
(*                                                                         *)
(* Python strings are sequences of one-character strings, so that          *)
(* str.split, str.startswith, str.ljust, str.join and the format           *)
(* specifications are computed character by character.  A node of the      *)
(* tree is a record; it is a directory iff it has a "contents" field.      *)
(* Python's None is the record None; a value that may be None or a string  *)
(* (filter_by) carries the string in a record [str |-> ...].               *)
(***************************************************************************)
EXTENDS Integers, Sequences, FiniteSets, TLC

VARIABLES
    data,      \* the loaded tree (directory_data of main)
    pc,        \* "idle": nothing called yet; "done": the call has returned
    call,      \* the arguments of the call
    result     \* what the call did: status, returned value, lines printed

vars == <<data, pc, call, result>>

----------------------------------------------------------------------------
(* Bounds and input sets *)

\* the longest contents list of the root directory
MaxChildren == 3

None == [py |-> "None"]

PyStr(s) == [str |-> s]

\* permission strings
PermFile == <<"-", "r", "w", "-", "r", "-", "-", "r", "-", "-">>

PermDir == <<"d", "r", "w", "x", "r", "-", "x", "r", "-", "x">>

\* a permission string shorter than 10 characters (padded on display)
PermShort == <<"d", "r", "w", "x">>

File(name, size, time_modified, permissions) ==
    [name |-> name, size |-> size, time_modified |-> time_modified,
     permissions |-> permissions]

Dir(name, size, time_modified, permissions, contents) ==
    [name |-> name, size |-> size, time_modified |-> time_modified,
     permissions |-> permissions, contents |-> contents]

FileA == File(<<"a">>, 83, 90060, PermFile)

FileB == File(<<"b">>, 1280, 3600, PermFile)

FileHidden == File(<<".", "h">>, 1071, 3600, PermFile)

\* a hidden directory
DirHidden == Dir(<<".", "d">>, 512, 90060, PermDir, <<FileA>>)

DirA == Dir(<<"a">>, 4096, 3600, PermDir, <<FileB, DirHidden>>)

DirAEmpty == Dir(<<"a">>, 1572864, 90060, PermShort, <<>>)

DirAA == Dir(<<"a">>, 4096, 176520, PermDir, <<FileA, DirA>>)

\* the nodes a root directory is filled from
Pool == {FileA, FileB, FileHidden, DirA, DirAEmpty, DirAA}

RECURSIVE SeqsUpTo(_, _)
SeqsUpTo(S, n) ==
    IF n = 0 THEN {<<>>}
    ELSE LET shorter == SeqsUpTo(S, n - 1)
         IN shorter \cup {Append(s, x) : s \in {t \in shorter : Len(t) = n - 1}, x \in S}

Root(contents) == Dir(<<"r">>, 4096, 176520, PermFile, contents)

\* the trees structure.json may hold: a root directory, or a root that is a file
Trees == {Root(c) : c \in SeqsUpTo(Pool, MaxChildren)} \cup {FileA}

\* the path argument
Paths == {<<>>, <<"a">>, <<"a", "/", "b">>, <<"a", "/", "a", "/", "b">>, <<"c">>}

\* --filter: absent, empty, the two filters, anything else
Filters == {None, PyStr(<<>>), PyStr(<<"f", "i", "l", "e">>),
            PyStr(<<"d", "i", "r">>), PyStr(<<"x">>)}

Options == [show_all : BOOLEAN, detailed : BOOLEAN, reverse : BOOLEAN,
            sort_by_time : BOOLEAN, filter_by : Filters, human_readable : BOOLEAN]

----------------------------------------------------------------------------
(* Python built-ins used by the program *)

\* dict.get(key, default)
Get(d, key, default) == IF key \in DOMAIN d THEN d[key] ELSE default

\* a variant of startswith: the whole string is compared, not its start
startswith_whole(s, ch) == s = <<ch>>

\* str.startswith(prefix), for a one-character prefix
startswith(s, ch) == Len(s) >= 1 /\ s[1] = ch

\* str.split(sep), for a one-character separator
RECURSIVE split(_, _)
split(s, sep) ==
    IF \A i \in 1..Len(s) : s[i] # sep THEN <<s>>
    ELSE LET k == CHOOSE i \in 1..Len(s) :
                      s[i] = sep /\ \A j \in 1..(i - 1) : s[j] # sep
         IN <<SubSeq(s, 1, k - 1)>> \o split(SubSeq(s, k + 1, Len(s)), sep)

\* sep.join(strings)
RECURSIVE join(_, _)
join(sep, strings) ==
    IF strings = <<>> THEN <<>>
    ELSE IF Len(strings) = 1 THEN strings[1]
    ELSE strings[1] \o sep \o join(sep, Tail(strings))

Spaces(n) == [i \in 1..n |-> " "]

\* str.ljust(width)
ljust(s, width) == IF Len(s) >= width THEN s ELSE s \o Spaces(width - Len(s))

\* the format specification ">8": right-justified in `width` columns
rjust(s, width) == IF Len(s) >= width THEN s ELSE Spaces(width - Len(s)) \o s

Digit(d) == <<"0", "1", "2", "3", "4", "5", "6", "7", "8", "9">>[d + 1]

\* str(n) for n >= 0
RECURSIVE str(_)
str(n) == IF n < 10 THEN <<Digit(n)>> ELSE str(n \div 10) \o <<Digit(n % 10)>>

\* a number printed in two columns with a leading zero (%d, %H, %M)
TwoDigits(n) == <<Digit((n \div 10) % 10), Digit(n % 10)>>

\* f"{num / den:.1f}": num/den rounded to one decimal, a tie going to the even digit
\* (num / den is exact in binary floating point: den is a power of two)
OneDecimal(num, den) ==
    LET q == (10 * num) \div den
        r == (10 * num) % den
        tenths == IF 2 * r > den THEN q + 1
                  ELSE IF 2 * r = den THEN q + (q % 2)
                  ELSE q
    IN str(tenths \div 10) \o <<".">> \o str(tenths % 10)

\* list.reverse()
Reverse(s) == [i \in 1..Len(s) |-> s[Len(s) + 1 - i]]

\* a variant of InsertByTime: x goes ahead of the elements of equal key, which
\* is a sort that is not stable
InsertByTimeBeforeEqual(sorted, x) ==
    LET k == Cardinality({i \in 1..Len(sorted) :
                              sorted[i].time_modified < x.time_modified})
    IN SubSeq(sorted, 1, k) \o <<x>> \o SubSeq(sorted, k + 1, Len(sorted))

\* one insertion of list.sort: x goes after the elements whose key is not greater
InsertByTime(sorted, x) ==
    LET k == Cardinality({i \in 1..Len(sorted) :
                              sorted[i].time_modified <= x.time_modified})
    IN SubSeq(sorted, 1, k) \o <<x>> \o SubSeq(sorted, k + 1, Len(sorted))

\* list.sort(key=lambda x: x['time_modified']): ascending and stable
RECURSIVE SortByTime(_)
SortByTime(items) ==
    IF items = <<>> THEN <<>>
    ELSE InsertByTime(SortByTime(SubSeq(items, 1, Len(items) - 1)), items[Len(items)])

----------------------------------------------------------------------------
(* Formatting helpers *)

format_permissions(permissions) == ljust(permissions, 10)

\* '%b %d %H:%M' of time.localtime(timestamp); the local zone is taken to be
\* UTC and the timestamp to lie in January 1970
format_time(timestamp) ==
    <<"J", "a", "n", " ">> \o TwoDigits(1 + timestamp \div 86400)
        \o <<" ">> \o TwoDigits((timestamp \div 3600) % 24)
        \o <<":">> \o TwoDigits((timestamp \div 60) % 60)

human_readable_size(size) ==
    IF size < 1024 THEN str(size) \o <<"B">>
    ELSE IF size < 1024 * 1024 THEN OneDecimal(size, 1024) \o <<"K">>
    ELSE IF size < 1024 * 1024 * 1024 THEN OneDecimal(size, 1024 * 1024) \o <<"M">>
    ELSE OneDecimal(size, 1024 * 1024 * 1024) \o <<"G">>

----------------------------------------------------------------------------
(* Path resolution *)

RECURSIVE find_path_in_structure(_, _)
RECURSIVE ScanContents(_, _, _)

\* a variant of ScanContents: a file of the right name ends the search when
\* segments remain
RECURSIVE ScanContentsFirstMatch(_, _, _)
ScanContentsFirstMatch(contents, path_parts, i) ==
    IF i > Len(contents) THEN None
    ELSE LET item == contents[i]
         IN IF "name" \in DOMAIN item /\ item.name = path_parts[1]
            THEN IF Len(path_parts) = 1 THEN item
                 ELSE IF "contents" \in DOMAIN item
                      THEN find_path_in_structure(item, Tail(path_parts))
                      ELSE None
            ELSE ScanContentsFirstMatch(contents, path_parts, i + 1)

\* the loop "for item in contents" of find_path_in_structure, from the i-th item
ScanContents(contents, path_parts, i) ==
    IF i > Len(contents) THEN None
    ELSE LET item == contents[i]
         IN IF "name" \in DOMAIN item /\ item.name = path_parts[1]
            THEN IF Len(path_parts) = 1 THEN item
                 ELSE IF "contents" \in DOMAIN item
                      THEN find_path_in_structure(item, Tail(path_parts))
                      ELSE ScanContents(contents, path_parts, i + 1)
            ELSE ScanContents(contents, path_parts, i + 1)

find_path_in_structure(d, path_parts) ==
    IF path_parts = <<>> THEN d
    ELSE ScanContents(Get(d, "contents", <<>>), path_parts, 1)

----------------------------------------------------------------------------
(* Listing *)

\* what print() wrote, as a sequence of lines, and how the call ended
\* "return" with no value
ReturnNone(out) ==
    [status |-> "returned", type |-> "NoneType", value |-> <<>>, items |-> <<>>,
     out |-> out]

Names(items) == [i \in 1..Len(items) |-> items[i].name]

\* "return [item['name'] for item in top_level_items]"; the record keeps
\* top_level_items as it stood at the return
ReturnList(top_level_items, out) ==
    [status |-> "returned", type |-> "list", value |-> Names(top_level_items),
     items |-> top_level_items, out |-> out]

\* an exception that leaves the function
Raise(exception, out) ==
    [status |-> "raised", type |-> exception, value |-> <<>>, items |-> <<>>,
     out |-> out]

\* what find_path_in_structure returned
ReturnNode(item) ==
    [status |-> "returned", type |-> IF item = None THEN "NoneType" ELSE "dict",
     value |-> <<item>>, items |-> <<>>, out |-> <<>>]

\* a variant of CannotAccess: the message does not name the path
CannotAccessUnnamed(path) ==
    <<"error: cannot access '">> \o <<"': No such file or directory">>

CannotAccess(path) ==
    <<"error: cannot access '">> \o path \o <<"': No such file or directory">>

InvalidFilter(filter_by) ==
    <<"error: ">> \o filter_by.str
        \o <<" is not a valid filter criteria. Available filters are 'dir' and 'file'">>

\* "if filter_by:" is false for None and for the empty string
Truthy(filter_by) == filter_by # None /\ filter_by.str # <<>>

\* a variant of IsDirectory: an empty contents list does not count
IsDirectoryNonEmpty(entry) == Get(entry, "contents", <<>>) # <<>>

\* "is_directory = "contents" in entry"
IsDirectory(entry) == "contents" \in DOMAIN entry

\* the loop "for entry in contents", from the i-th entry.  loc holds the
\* locals the loop writes: top_level_items, entry (<<>> while unbound,
\* <<e>> once bound to e) and the lines printed
RECURSIVE CollectEntries(_, _, _, _)
CollectEntries(contents, i, o, loc) ==
    IF i > Len(contents) THEN loc
    ELSE LET entry == contents[i]
             name == Get(entry, "name", <<>>)
             permissions == Get(entry, "permissions", <<>>)
             size == Get(entry, "size", 0)
             time_modified == Get(entry, "time_modified", 0)
             is_directory == IsDirectory(entry)
             bound == [loc EXCEPT !.entry = <<entry>>]
             appended == [bound EXCEPT !.top_level_items =
                             Append(@, [name |-> name, permissions |-> permissions,
                                        size |-> size, time_modified |-> time_modified,
                                        is_directory |-> is_directory])]
         IN IF o.show_all \/ ~startswith(name, ".")
            THEN IF Truthy(o.filter_by)
                 THEN IF o.filter_by.str = <<"f", "i", "l", "e">> /\ is_directory
                      THEN CollectEntries(contents, i + 1, o, bound)
                      ELSE IF o.filter_by.str = <<"d", "i", "r">> /\ ~is_directory
                      THEN CollectEntries(contents, i + 1, o, bound)
                      ELSE IF o.filter_by.str # <<"d", "i", "r">>
                              /\ o.filter_by.str # <<"f", "i", "l", "e">>
                      THEN [bound EXCEPT !.out = Append(@, InvalidFilter(o.filter_by))]
                      ELSE CollectEntries(contents, i + 1, o, appended)
                 ELSE CollectEntries(contents, i + 1, o, appended)
            ELSE CollectEntries(contents, i + 1, o, bound)

\* a variant of SortStage: the list is sorted whether or not -t was given
SortStageAlways(o, top_level_items) == SortByTime(top_level_items)

\* "if sort_by_time: top_level_items.sort(...)": sorts the new list only
SortStage(o, top_level_items) ==
    IF o.sort_by_time THEN SortByTime(top_level_items) ELSE top_level_items

\* "if reverse: top_level_items.reverse()"
ReverseStage(o, top_level_items) ==
    IF o.reverse THEN Reverse(top_level_items) ELSE top_level_items

\* the size column of a detailed line: read from `entry`, the loop variable
\* of the collecting loop, which is still bound to the last entry it visited
SizeColumn(o, entry) ==
    IF o.human_readable THEN human_readable_size(entry.size) ELSE str(entry.size)

DetailedLine(o, item, entry) ==
    format_permissions(item.permissions) \o <<" ">>
        \o rjust(SizeColumn(o, entry), 8) \o <<" ">>
        \o format_time(item.time_modified) \o <<" ">> \o item.name

\* the branch "if 'contents' in item"
ListDirectory(item, o) ==
    LET loc == CollectEntries(item.contents, 1, o,
                              [top_level_items |-> <<>>, entry |-> <<>>, out |-> <<>>])
        top_level_items == ReverseStage(o, SortStage(o, loc.top_level_items))
    IN IF o.detailed
       THEN IF top_level_items = <<>>
            THEN ReturnList(<<>>, loc.out)
            ELSE IF "size" \notin DOMAIN loc.entry[1]
            THEN Raise("KeyError", loc.out)
            ELSE ReturnList(top_level_items,
                            loc.out \o [i \in 1..Len(top_level_items) |->
                                DetailedLine(o, top_level_items[i], loc.entry[1])])
       ELSE ReturnList(top_level_items,
                       Append(loc.out, join(<<" ">>, Names(top_level_items))))

\* the branch for a file: neither `entry` nor `top_level_items` was ever
\* assigned on this path
ListFile(item, o) ==
    IF o.detailed
    THEN IF "permissions" \notin DOMAIN item \/ "time_modified" \notin DOMAIN item
         THEN Raise("KeyError", <<>>)
         ELSE Raise("UnboundLocalError", <<>>)
    ELSE IF "name" \notin DOMAIN item
         THEN Raise("KeyError", <<>>)
         ELSE Raise("UnboundLocalError", <<item.name>>)

\* "path.split('/') if path else []"
PathParts(path) == IF path # <<>> THEN split(path, "/") ELSE <<>>

list_top_level_files(d, path, o) ==
    LET path_parts == PathParts(path)
        item == find_path_in_structure(d, path_parts)
    IN IF item = None
       THEN ReturnNone(<<CannotAccess(path)>>)
       ELSE IF "contents" \in DOMAIN item
            THEN ListDirectory(item, o)
            ELSE ListFile(item, o)

----------------------------------------------------------------------------
(* The state machine: one tree is loaded, then a call is made, and the     *)
(* same call may be made again on the same tree any number of times.       *)

NoCall == [op |-> "none"]

Init ==
    /\ data \in Trees
    /\ pc = "idle"
    /\ call = NoCall
    /\ result = ReturnNone(<<>>)

\* a variant of ListCall: the sort is done on the tree's own contents list
ListCallSortingInPlace ==
    /\ pc = "idle"
    /\ \E path \in Paths, o \in Options :
           /\ call' = [op |-> "list", path |-> path, options |-> o]
           /\ result' = list_top_level_files(data, path, o)
           /\ data' = IF path = <<>> /\ "contents" \in DOMAIN data /\ o.sort_by_time
                      THEN [data EXCEPT !.contents = SortByTime(@)]
                      ELSE data
    /\ pc' = "done"

\* list_top_level_files(directory_data, path=..., show_all=..., ...)
ListCall ==
    /\ pc = "idle"
    /\ \E path \in Paths, o \in Options :
           /\ call' = [op |-> "list", path |-> path, options |-> o]
           /\ result' = list_top_level_files(data, path, o)
    /\ pc' = "done"
    /\ data' = data

\* find_path_in_structure(directory_data, path_parts)
ResolveCall ==
    /\ pc = "idle"
    /\ \E path \in Paths :
           LET path_parts == PathParts(path)
           IN /\ call' = [op |-> "resolve", path_parts |-> path_parts]
              /\ result' = ReturnNode(find_path_in_structure(data, path_parts))
    /\ pc' = "done"
    /\ data' = data

\* the call just made is made again with the same arguments
RepeatCall ==
    /\ pc = "done"
    /\ result' = IF call.op = "list"
                 THEN list_top_level_files(data, call.path, call.options)
                 ELSE ReturnNode(find_path_in_structure(data, call.path_parts))
    /\ pc' = "done"
    /\ data' = data
    /\ call' = call

Next == ListCall \/ ResolveCall \/ RepeatCall

Spec == Init /\ [][Next]_vars

----------------------------------------------------------------------------
(* Vocabulary of the properties.  These definitions state what a listing   *)
(* should be, from a node's fields, without going through the code above.  *)

Listing == pc = "done" /\ call.op = "list"

Resolving == pc = "done" /\ call.op = "resolve"

\* the node the listing call addresses
Target == find_path_in_structure(data, PathParts(call.path))

OnDirectory == Listing /\ Target # None /\ "contents" \in DOMAIN Target

OnFile == Listing /\ Target # None /\ "contents" \notin DOMAIN Target

OnNothing == Listing /\ Target = None

opts == call.options

FilterFile == PyStr(<<"f", "i", "l", "e">>)

FilterDir == PyStr(<<"d", "i", "r">>)

NoTypeFilter == opts.filter_by \in {None, PyStr(<<>>)}

InvalidTypeFilter == opts.filter_by \notin {None, PyStr(<<>>), FilterFile, FilterDir}

HasContents(node) == "contents" \in DOMAIN node

Hidden(node) == node.name # <<>> /\ Head(node.name) = "."

Range(seq) == {seq[i] : i \in 1..Len(seq)}

Count(seq, x) == Cardinality({i \in 1..Len(seq) : seq[i] = x})

\* whether a child passes the hidden-file policy and the type filter
Survives(node) ==
    /\ opts.show_all \/ ~Hidden(node)
    /\ opts.filter_by = FilterFile => ~HasContents(node)
    /\ opts.filter_by = FilterDir => HasContents(node)
    /\ ~InvalidTypeFilter

\* the indices, in contents order, of the children that survive
SurvivorIndices ==
    LET contents == Target.contents
        idx == {i \in 1..Len(contents) : Survives(contents[i])}
        RECURSIVE Ascending(_)
        Ascending(S) ==
            IF S = {} THEN <<>>
            ELSE LET m == CHOOSE x \in S : \A y \in S : x <= y
                 IN <<m>> \o Ascending(S \ {m})
    IN Ascending(idx)

SurvivorNames == [i \in 1..Len(SurvivorIndices) |-> Target.contents[SurvivorIndices[i]].name]

\* the listing entry the code builds for a child
EntryOf(node) ==
    [name |-> node.name, permissions |-> node.permissions, size |-> node.size,
     time_modified |-> node.time_modified, is_directory |-> HasContents(node)]

\* result.items lists the survivors in the order Before, a strict total
\* order of the contents indices: the child at index i stands behind as
\* many entries as there are survivors j with Before(j, i)
OrderedBy(Before(_, _)) ==
    LET survivors == Range(SurvivorIndices)
    IN /\ Len(result.items) = Cardinality(survivors)
       /\ \A i \in survivors :
              result.items[1 + Cardinality({j \in survivors : Before(j, i)})]
                  = EntryOf(Target.contents[i])

TimeOf(i) == Target.contents[i].time_modified

----------------------------------------------------------------------------
(* C1 *)

\* C1: on a directory listed with no type filter, a child whose name starts
\* with '.' is in the returned names iff show_all is true, and every other
\* child is in the returned names whatever show_all is.
C1_HiddenExclusion ==
    (OnDirectory /\ NoTypeFilter) =>
        /\ result.status = "returned" /\ result.type = "list"
        /\ \A i \in 1..Len(Target.contents) :
               LET child == Target.contents[i]
               IN IF Hidden(child)
                  THEN (child.name \in Range(result.value)) <=> opts.show_all
                  ELSE child.name \in Range(result.value)

\* a directory with a hidden and a visible child, listed without show_all:
\* only the visible name came back
C1_Witness ==
    /\ OnDirectory /\ NoTypeFilter /\ ~opts.show_all
    /\ data = Root(<<FileHidden, FileA>>) /\ call.path = <<>>
    /\ result.value = <<<<"a">>>>

----------------------------------------------------------------------------
(* C2 *)

\* C2: when the path resolves to a file, the call returns the one-element
\* sequence holding that file's name, whatever the options.
C2_FileReturnsItsName ==
    OnFile =>
        /\ result.status = "returned" /\ result.type = "list"
        /\ result.value = <<Target.name>>

----------------------------------------------------------------------------
(* C3 *)

\* C3: on a directory, whatever its children, a non-empty filter_by other
\* than "file" and "dir" makes the call print the invalid-filter message and
\* return the empty sequence.
C3_InvalidFilterReported ==
    (OnDirectory /\ InvalidTypeFilter) =>
        /\ result.status = "returned" /\ result.type = "list"
        /\ result.value = <<>>
        /\ \E k \in 1..Len(result.out) :
               /\ result.out[k] # <<>>
               /\ Head(result.out[k]) = "error: "
               /\ SubSeq(result.out[k], 2, 1 + Len(opts.filter_by.str)) = opts.filter_by.str

----------------------------------------------------------------------------
(* C4 *)

\* C4: when the path resolves to no node, the call prints one line, the
\* "cannot access" message naming the path, and returns None without raising.
C4_NotFoundReported ==
    OnNothing =>
        /\ result.status = "returned" /\ result.type = "NoneType"
        /\ Len(result.out) = 1
        /\ Head(result.out[1]) = "error: cannot access '"
        /\ SubSeq(result.out[1], 2, 1 + Len(call.path)) = call.path
        /\ Len(result.out[1]) = Len(call.path) + 2

\* a path of two segments that the tree does not hold
C4_Witness ==
    /\ OnNothing
    /\ data = Root(<<FileA, FileB>>) /\ call.path = <<"a", "/", "b">>
    /\ opts.detailed /\ opts.sort_by_time
    /\ result.type = "NoneType"

----------------------------------------------------------------------------
(* C5 *)

\* C5: on a directory, with filter_by = "file" every returned name comes from
\* a child without a contents field and with filter_by = "dir" from a child
\* with one (an empty contents list counts): a name is returned no more often
\* than children of the asked-for kind carry it.  So "dir" on a directory
\* that holds only files returns the empty sequence.
C5_TypeFilter ==
    (OnDirectory /\ opts.filter_by \in {FilterFile, FilterDir}) =>
        /\ result.status = "returned" /\ result.type = "list"
        /\ \A name \in Range(result.value) :
               Count(result.value, name) <=
                   Cardinality({i \in 1..Len(Target.contents) :
                       /\ Target.contents[i].name = name
                       /\ HasContents(Target.contents[i]) <=> (opts.filter_by = FilterDir)})

\* "dir" on a directory whose children include an empty directory and a file
\* of the same name: one name came back, the directory's
C5_Witness ==
    /\ OnDirectory /\ opts.filter_by = FilterDir
    /\ data = Root(<<FileA, DirAEmpty, FileB>>) /\ call.path = <<>>
    /\ result.value = <<<<"a">>>>

----------------------------------------------------------------------------
(* C6 *)

\* C6 as stated: with sort_by_time and reverse the returned entries are in
\* strictly descending time_modified order.
C6_StrictlyDescending ==
    (OnDirectory /\ opts.sort_by_time /\ opts.reverse) =>
        /\ result.status = "returned" /\ result.type = "list"
        /\ \A i, j \in 1..Len(result.items) :
               i < j => result.items[i].time_modified > result.items[j].time_modified

AscendingStable(i, j) == TimeOf(i) < TimeOf(j) \/ (TimeOf(i) = TimeOf(j) /\ i < j)

DescendingReversed(i, j) == TimeOf(i) > TimeOf(j) \/ (TimeOf(i) = TimeOf(j) /\ i > j)

\* C6 as amended: with sort_by_time the returned entries are the survivors,
\* in ascending time_modified order with equal times in contents order when
\* reverse is false, and in descending (not strictly) time_modified order
\* with equal times in the reverse of contents order when reverse is true.
C6_SortThenReverse ==
    (OnDirectory /\ opts.sort_by_time) =>
        /\ result.status = "returned" /\ result.type = "list"
        /\ result.value = Names(result.items)
        /\ IF opts.reverse THEN OrderedBy(DescendingReversed)
                           ELSE OrderedBy(AscendingStable)

\* three children, the first and the last with the same time: sorted and
\* reversed, the last comes before the first
C6_Witness ==
    /\ OnDirectory /\ opts.sort_by_time /\ opts.reverse /\ NoTypeFilter
    /\ data = Root(<<FileB, FileA, DirA>>) /\ call.path = <<>>
    /\ result.value = <<<<"a">>, <<"a">>, <<"b">>>>
    /\ result.items[2].is_directory /\ ~result.items[1].is_directory

----------------------------------------------------------------------------
(* C7 *)

\* C7: on a directory listed without sort_by_time, the returned names are
\* the names of the surviving children in contents order, or in exactly the
\* reverse of it when reverse is true.
C7_InsertionOrder ==
    (OnDirectory /\ ~opts.sort_by_time) =>
        /\ result.status = "returned" /\ result.type = "list"
        /\ result.value = IF opts.reverse
                          THEN [i \in 1..Len(SurvivorNames) |->
                                    SurvivorNames[Len(SurvivorNames) + 1 - i]]
                          ELSE SurvivorNames

\* three children in an order that is not the order of their times, one of
\* them hidden: the two others came back in reverse contents order
C7_Witness ==
    /\ OnDirectory /\ ~opts.sort_by_time /\ opts.reverse /\ ~opts.show_all
    /\ NoTypeFilter
    /\ data = Root(<<FileA, FileHidden, FileB>>) /\ call.path = <<>>
    /\ result.value = <<<<"b">>, <<"a">>>>

----------------------------------------------------------------------------
(* C8 *)

Least(S) == CHOOSE x \in S : \A y \in S : x <= y

\* resolution in which only the first child of the right name counts
RECURSIVE FirstMatch(_, _)
FirstMatch(node, parts) ==
    IF parts = <<>> THEN node
    ELSE LET contents == IF HasContents(node) THEN node.contents ELSE <<>>
             matching == {i \in 1..Len(contents) : contents[i].name = Head(parts)}
         IN IF matching = {} THEN None
            ELSE IF Len(parts) = 1 THEN contents[Least(matching)]
            ELSE IF HasContents(contents[Least(matching)])
                 THEN FirstMatch(contents[Least(matching)], Tail(parts))
                 ELSE None

\* resolution in which, while segments remain, only directories of the right
\* name count, and the first of them decides
RECURSIVE FirstUsableMatch(_, _)
FirstUsableMatch(node, parts) ==
    IF parts = <<>> THEN node
    ELSE LET contents == IF HasContents(node) THEN node.contents ELSE <<>>
             usable == {i \in 1..Len(contents) :
                            /\ contents[i].name = Head(parts)
                            /\ Len(parts) = 1 \/ HasContents(contents[i])}
         IN IF usable = {} THEN None
            ELSE IF Len(parts) = 1 THEN contents[Least(usable)]
            ELSE FirstUsableMatch(contents[Least(usable)], Tail(parts))

\* C8 as stated: find_path_in_structure follows, at each step, the first
\* child whose name equals the segment, and returns None when that child is
\* a file and segments remain.
C8_FirstMatchDecides ==
    Resolving => result.value = <<FirstMatch(data, call.path_parts)>>

\* C8 as amended: the last segment returns the first child of that name;
\* while segments remain, children of that name that are files are passed
\* over and the first one that is a directory is entered, and what the rest
\* of the path resolves to inside it is the result (None included: no later
\* sibling is tried); an empty segment list returns the root.
C8_FirstUsableMatchDecides ==
    Resolving => result.value = <<FirstUsableMatch(data, call.path_parts)>>

\* a file "a" ahead of a directory "a" that holds "b": "a/b" resolved to "b"
C8_Witness ==
    /\ Resolving
    /\ data = Root(<<FileA, DirA>>)
    /\ call.path_parts = <<<<"a">>, <<"b">>>>
    /\ result.value = <<FileB>>

----------------------------------------------------------------------------
(* C9 *)

\* the columns of a detailed line: 10 of permissions, a space, 8 of size, a
\* space, 12 of time, a space, the name
SizeField(line) == SubSeq(line, 12, 19)

NameField(line) == SubSeq(line, 34, Len(line))

\* C9: a detailed listing of a directory prints one line per surviving entry
\* in the order of the returned names, and the size on each line is the size
\* of a child that carries the name on that line.
C9_SizeOfTheEntry ==
    (OnDirectory /\ opts.detailed /\ ~InvalidTypeFilter) =>
        /\ result.status = "returned" /\ result.type = "list"
        /\ Len(result.out) = Len(result.value)
        /\ \A k \in 1..Len(result.out) :
               /\ NameField(result.out[k]) = result.value[k]
               /\ \E i \in 1..Len(Target.contents) :
                      /\ Target.contents[i].name = result.value[k]
                      /\ SizeField(result.out[k]) =
                             rjust(IF opts.human_readable
                                   THEN human_readable_size(Target.contents[i].size)
                                   ELSE str(Target.contents[i].size), 8)

----------------------------------------------------------------------------
(* C10 *)

====
